---- MODULE Spec2Model ----
\* Model of the bingo gateway (src/src/main.rs): the registry of chain
\* sessions behind one tokio Mutex, the four request handlers, and the
\* per-chain background number submitter with its cooperative stop flag.
EXTENDS Integers, Sequences, FiniteSets, TLC

\* ------------------------------------------------------------------ bounds
\* Number of request tasks that can be in flight at the same time.
MaxReqs == 2

\* Length, in pieces, of the CHAIN_NAMES value read at startup.
MaxEnvLen == 3

\* Logs in a receipt, topics in a log, drawn numbers in a game state.
MaxLogs == 2
MaxTopics == 3
MaxDrawn == 2

\* ------------------------------------------------------------- input sets
\* Chain names configured at startup (the keys of the registry).
ChainNames == {"eth", "base"}
\* Chain names a caller may put in the URL: the configured ones and one
\* that is not a key of the registry.
RequestedNames == ChainNames \cup {"nochain"}
\* walletAddress strings a caller may post.
WellFormedAddresses == {"0x00000000000000000000000000000000000000a1"}
WalletAddresses == WellFormedAddresses \cup {"not-an-address"}
Handlers == {"get_game_state", "purchase_card", "get_card", "challenge"}
Reqs == 1..MaxReqs
\* Value of the registry lock when no task owns the guard.
Unlocked == 0

VARIABLES
    chain_states,   \* the registry: chain name -> ChainState
    lock,           \* owner of the registry's tokio Mutex guard, or Unlocked
    is_running,     \* BackgroundSubmitter.is_running (AtomicBool)
    bg,             \* per chain: the spawned background task
    req,            \* per request slot: the handler task serving it
    boot,           \* rocket(): the configuration read and how far launch got
    calc            \* the last application of one of the pure computations

vars == <<chain_states, lock, is_running, bg, req, boot, calc>>

\* ------------------------------------------------------- background task
\* `while is_running.load(Ordering::SeqCst)`: the loop is entered iff the
\* flag read is true.
LoopCondAlways(running) == TRUE
LoopCondNegated(running) == ~running
LoopCond(running) == running

\* `if is_game_started { ... }` in submit_number.
SubmitGuardNotErr(read) == read # "err"
SubmitGuard(read) == read = "true"

\* The match on submit_number's result only logs; both arms fall through to
\* the sleep at the bottom of the loop body.
AfterCyclePropagate(result) == IF result = "Err" THEN "stopped" ELSE "sleep"
AfterCycleRetry(result) == IF result = "Err" THEN "loop" ELSE "sleep"
AfterCycleResubmit(result) ==
    IF result = "Err" THEN "is_game_started" ELSE "sleep"
AfterCycle(result) == "sleep"

\* The task owns the clone of the session's contract handle that on_ignite
\* moved into it at spawn; using it takes no registry lock, whoever holds it.
ContractNeedsRegistry(l) == l = Unlocked
ContractCaptured(l) == TRUE

\* A task as spawned by on_ignite: about to evaluate the loop condition.
\*   pc      where the task is suspended
\*   started the isGameStarted read of the current cycle ("none" before it)
\*   sent    submitDrawnNumber transactions sent in the current cycle
\*   result  the value submit_number returned in the current cycle
\*   sleeps  15-second sleeps completed since the current cycle began
SpawnedTask ==
    [pc |-> "loop", started |-> "none", sent |-> 0, result |-> "none",
     sleeps |-> 0]

\* Top of the while loop: read the flag, start a cycle or leave the loop.
on_ignite_loop(c) ==
    /\ bg[c].pc = "loop"
    /\ ContractCaptured(lock)
    /\ bg' = [bg EXCEPT ![c] =
                IF LoopCond(is_running)
                THEN [pc |-> "is_game_started", started |-> "none",
                      sent |-> 0, result |-> "none", sleeps |-> 0]
                ELSE [@ EXCEPT !.pc = "stopped"]]
    /\ UNCHANGED <<chain_states, lock, is_running, req, boot, calc>>

\* The isGameStarted call returns; on true the submitDrawnNumber
\* transaction is sent right away.
submit_number_read(c, read) ==
    /\ bg[c].pc = "is_game_started"
    /\ bg' = [bg EXCEPT ![c] =
                IF read = "err"
                THEN [@ EXCEPT !.started = read, !.result = "Err",
                               !.pc = AfterCycle("Err")]
                ELSE IF SubmitGuard(read)
                THEN [@ EXCEPT !.started = read, !.sent = @ + 1, !.pc = "send"]
                ELSE [@ EXCEPT !.started = read, !.result = "Ok",
                               !.pc = AfterCycle("Ok")]]
    /\ UNCHANGED <<chain_states, lock, is_running, req, boot, calc>>

\* `submit_call.send().await?` returns.
submit_number_send(c, ok) ==
    /\ bg[c].pc = "send"
    /\ bg' = [bg EXCEPT ![c] =
                IF ok
                THEN [@ EXCEPT !.pc = "confirm"]
                ELSE [@ EXCEPT !.result = "Err", !.pc = AfterCycle("Err")]]
    /\ UNCHANGED <<chain_states, lock, is_running, req, boot, calc>>

\* `tx.await?` returns: a receipt, no receipt, or an error.
submit_number_confirm(c, res) ==
    /\ bg[c].pc = "confirm"
    /\ bg' = [bg EXCEPT ![c] =
                IF res = "err"
                THEN [@ EXCEPT !.result = "Err", !.pc = AfterCycle("Err")]
                ELSE [@ EXCEPT !.result = "Ok", !.pc = AfterCycle("Ok")]]
    /\ UNCHANGED <<chain_states, lock, is_running, req, boot, calc>>

\* `sleep(Duration::from_secs(15)).await` returns.
on_ignite_sleep(c) ==
    /\ bg[c].pc = "sleep"
    /\ bg' = [bg EXCEPT ![c] = [@ EXCEPT !.pc = "loop", !.sleeps = @ + 1]]
    /\ UNCHANGED <<chain_states, lock, is_running, req, boot, calc>>

\* BackgroundSubmitter::stop (called by shutdown_handler).
stop ==
    /\ is_running' = FALSE
    /\ UNCHANGED <<chain_states, lock, bg, req, boot, calc>>

BgStep(c) ==
    \/ on_ignite_loop(c)
    \/ \E read \in {"true", "false", "err"} : submit_number_read(c, read)
    \/ \E ok \in BOOLEAN : submit_number_send(c, ok)
    \/ \E res \in {"receipt", "none", "err"} : submit_number_confirm(c, res)
    \/ on_ignite_sleep(c)

\* ------------------------------------------------------- request handlers
\* `chain_states.get(chain_name)`: Some(session) iff the name is a key.
lookupAlwaysSome(map, name) == "Some"
lookup(map, name) == IF name \in DOMAIN map THEN "Some" ELSE "None"

\* `request.walletAddress.parse::<Address>()`.
parse_Address(w) == IF w \in WellFormedAddresses THEN "Ok" ELSE "Err"

\* `if is_started { return "Game has already started" }` in purchase_card.
PurchaseRefusedNever(is_started) == FALSE
PurchaseRefused(is_started) == is_started

\* Results the remote getCurrentGameState read can produce: Err (ok = FALSE),
\* or Ok with the fields of the tuple the handlers branch on.
GameStateReads ==
    {[ok |-> FALSE, is_started |-> FALSE, is_ended |-> FALSE]}
    \cup [ok : {TRUE}, is_started : BOOLEAN, is_ended : BOOLEAN]

\* format_game_status_message: not-started overrides ended overrides active.
format_game_status_message(state) ==
    IF ~state.is_started THEN "Game has not started yet"
    ELSE IF state.is_ended THEN "Game has ended"
    ELSE "Game is active"

\* A request slot with no request in it.
\*   ops     remote operations issued so far by the request
\*   sent    write transactions sent so far by the request
\*   remote  what the last remote operation that returned produced: "ok",
\*           "err", "no_receipt" (confirmation returned Ok(None)), "not_won"
\*           (a receipt of a claimWin that did not grant the win), or "none"
\*           while no remote operation has returned
\*   status, success, message, data: the response
IdleReq ==
    [pc |-> "idle", handler |-> "none", chain_name |-> "none",
     walletAddress |-> "none", ops |-> 0, is_started |-> "none", sent |-> 0,
     remote |-> "none", status |-> 0, success |-> FALSE, message |-> "", data |-> "none"]

\* The handler returns Ok(Json(ApiResponse{..})): HTTP 200 with an envelope.
\* Returning drops the MutexGuard held in the local `chain_states`.
Envelope(r, remote, success, message, data) ==
    /\ req' = [req EXCEPT ![r] = [@ EXCEPT !.pc = "done", !.status = 200,
                  !.remote = remote,
                  !.success = success, !.message = message, !.data = data]]
    /\ lock' = Unlocked

\* The handler returns Err(Status): an HTTP error status, no envelope.
\* Returning drops the MutexGuard.
ErrStatus(r, remote, status) ==
    /\ req' = [req EXCEPT ![r] = [@ EXCEPT !.pc = "done", !.status = status,
                                            !.remote = remote]]
    /\ lock' = Unlocked

\* The handler suspends on a remote Ledger Client operation; the guard in
\* the local `chain_states` stays alive across the await.
Await(r, remote, op, sends) ==
    /\ req' = [req EXCEPT ![r] = [@ EXCEPT !.pc = op, !.ops = @ + 1,
                                            !.remote = remote,
                                            !.sent = @ + sends]]
    /\ lock' = r

\* A request arrives and its handler task calls chain_states.lock().
request(r, h, name, w) ==
    /\ req[r].pc = "idle"
    /\ req' = [req EXCEPT ![r] = [IdleReq EXCEPT !.pc = "lock", !.handler = h,
                                   !.chain_name = name, !.walletAddress = w]]
    /\ UNCHANGED <<chain_states, lock, is_running, bg, boot, calc>>

\* get_game_state: the lock is granted, the session is looked up and the
\* getCurrentGameState read is issued.
get_game_state_lock(r) ==
    /\ req[r].pc = "lock" /\ req[r].handler = "get_game_state"
    /\ lock = Unlocked
    /\ IF lookup(chain_states, req[r].chain_name) = "None"
       THEN ErrStatus(r, "none", 404)
       ELSE Await(r, "none", "get_current_game_state", 0)
    /\ UNCHANGED <<chain_states, is_running, bg, boot, calc>>

\* get_game_state: the read returns.
get_game_state_read(r, res) ==
    /\ req[r].pc = "get_current_game_state"
    /\ req[r].handler = "get_game_state"
    /\ IF ~res.ok
       THEN Envelope(r, "err", FALSE, "Failed to get game state", "none")
       ELSE Envelope(r, "ok", TRUE, format_game_status_message(res),
                     "GameState")
    /\ UNCHANGED <<chain_states, is_running, bg, boot, calc>>

\* purchase_card: the lock is granted, the session is looked up and the
\* getCurrentGameState read is issued.
purchase_card_lock(r) ==
    /\ req[r].pc = "lock" /\ req[r].handler = "purchase_card"
    /\ lock = Unlocked
    /\ IF lookup(chain_states, req[r].chain_name) = "None"
       THEN ErrStatus(r, "none", 404)
       ELSE Await(r, "none", "get_current_game_state", 0)
    /\ UNCHANGED <<chain_states, is_running, bg, boot, calc>>

\* purchase_card: the read returns; refuse a started game, otherwise parse
\* the wallet address and send assignCard.
purchase_card_read(r, res) ==
    /\ req[r].pc = "get_current_game_state"
    /\ req[r].handler = "purchase_card"
    /\ IF ~res.ok
       THEN /\ req' = [req EXCEPT ![r] = [@ EXCEPT !.pc = "done",
                         !.status = 200, !.is_started = "err",
                         !.remote = "err",
                         !.message = "Failed to check game state"]]
            /\ lock' = Unlocked
       ELSE IF PurchaseRefused(res.is_started)
       THEN /\ req' = [req EXCEPT ![r] = [@ EXCEPT !.pc = "done",
                         !.status = 200, !.is_started = "true",
                         !.remote = "ok",
                         !.message = "Game has already started"]]
            /\ lock' = Unlocked
       ELSE IF parse_Address(req[r].walletAddress) = "Err"
       THEN /\ req' = [req EXCEPT ![r] = [@ EXCEPT !.pc = "done",
                         !.status = 400, !.remote = "ok",
                         !.is_started = IF res.is_started THEN "true"
                                        ELSE "false"]]
            /\ lock' = Unlocked
       ELSE /\ req' = [req EXCEPT ![r] = [@ EXCEPT !.pc = "assign_card_send",
                         !.ops = @ + 1, !.sent = @ + 1, !.remote = "ok",
                         !.is_started = IF res.is_started THEN "true"
                                        ELSE "false"]]
            /\ lock' = r
    /\ UNCHANGED <<chain_states, is_running, bg, boot, calc>>

\* purchase_card: `assign_card(..).send().await` returns.
purchase_card_send(r, ok) ==
    /\ req[r].pc = "assign_card_send"
    /\ IF ok
       THEN Await(r, "ok", "assign_card_confirm", 0)
       ELSE Envelope(r, "err", FALSE, "Failed to send transaction", "none")
    /\ UNCHANGED <<chain_states, is_running, bg, boot, calc>>

\* purchase_card: `tx.await` returns a receipt, no receipt, or an error.
purchase_card_confirm(r, res) ==
    /\ req[r].pc = "assign_card_confirm"
    /\ CASE res = "receipt" ->
              Envelope(r, "ok", TRUE,
                       "Bingo card purchased and assigned successfully",
                       "BingoCard")
         [] res = "none" -> ErrStatus(r, "no_receipt", 500)
         [] OTHER -> Envelope(r, "err", FALSE, "Transaction failed", "none")
    /\ UNCHANGED <<chain_states, is_running, bg, boot, calc>>

\* get_card: the lock is granted, the session is looked up, the wallet
\* address is parsed and the getPlayerCards read is issued.
get_card_lock(r) ==
    /\ req[r].pc = "lock" /\ req[r].handler = "get_card"
    /\ lock = Unlocked
    /\ IF lookup(chain_states, req[r].chain_name) = "None"
       THEN ErrStatus(r, "none", 404)
       ELSE IF parse_Address(req[r].walletAddress) = "Err"
       THEN ErrStatus(r, "none", 400)
       ELSE Await(r, "none", "get_player_cards", 0)
    /\ UNCHANGED <<chain_states, is_running, bg, boot, calc>>

\* get_card: the read returns.
get_card_read(r, ok) ==
    /\ req[r].pc = "get_player_cards"
    /\ IF ok
       THEN Envelope(r, "ok", TRUE, "Get Card", "cards")
       ELSE Envelope(r, "err", FALSE, "Failed to get player cards", "none")
    /\ UNCHANGED <<chain_states, is_running, bg, boot, calc>>

\* challenge: the lock is granted, the session is looked up, the wallet
\* address is parsed and the claimWin transaction is sent.
challenge_lock(r) ==
    /\ req[r].pc = "lock" /\ req[r].handler = "challenge"
    /\ lock = Unlocked
    /\ IF lookup(chain_states, req[r].chain_name) = "None"
       THEN ErrStatus(r, "none", 404)
       ELSE IF parse_Address(req[r].walletAddress) = "Err"
       THEN ErrStatus(r, "none", 400)
       ELSE Await(r, "none", "claim_win_send", 1)
    /\ UNCHANGED <<chain_states, is_running, bg, boot, calc>>

\* challenge: `claim_win(..).send().await` returns.
challenge_send(r, ok) ==
    /\ req[r].pc = "claim_win_send"
    /\ IF ok
       THEN Await(r, "ok", "claim_win_confirm", 0)
       ELSE Envelope(r, "err", FALSE, "Invalid win", "false")
    /\ UNCHANGED <<chain_states, is_running, bg, boot, calc>>

\* What the confirmation wait of a claimWin transaction can produce: a
\* receipt of a transaction in which claimWin granted the win ("ok"), a
\* receipt of one in which it did not ("not_won": it returned false or was
\* reverted), Ok(None) ("no_receipt"), or an error ("err").
ClaimConfirmations == {"ok", "not_won", "no_receipt", "err"}

\* challenge: `tx.await` returns; every Ok(_) is reported as a win.
challenge_confirm(r, res) ==
    /\ req[r].pc = "claim_win_confirm"
    /\ IF res # "err"
       THEN Envelope(r, res, TRUE, "You won!", "true")
       ELSE Envelope(r, res, FALSE, "Invalid win", "false")
    /\ UNCHANGED <<chain_states, is_running, bg, boot, calc>>

\* The response has been written out; the slot can take the next request.
respond(r) ==
    /\ req[r].pc = "done"
    /\ req' = [req EXCEPT ![r] = IdleReq]
    /\ UNCHANGED <<chain_states, lock, is_running, bg, boot, calc>>

\* ---------------------------------------------------------------- startup
\* The value of an environment variable is written as the sequence of its
\* pieces: a piece is a "," or a stretch of text without a comma.
RECURSIVE Concat(_)
Concat(pieces) ==
    IF pieces = <<>> THEN "" ELSE Head(pieces) \o Concat(Tail(pieces))

\* `value.split(',').collect()`: the texts between the commas, in order; a
\* value without a comma (the empty one included) gives one item.
RECURSIVE split(_)
split(value) ==
    IF \A k \in 1..Len(value) : value[k] # ","
    THEN <<Concat(value)>>
    ELSE LET k == CHOOSE j \in 1..Len(value) :
                     /\ value[j] = ","
                     /\ \A h \in 1..(j - 1) : value[h] # ","
         IN  <<Concat(SubSeq(value, 1, k - 1))>>
                 \o split(SubSeq(value, k + 1, Len(value)))

\* The three-way length comparison after the split: TRUE iff rocket() panics.
LengthsDifferNamesUnchecked(urls, addrs, keys, names) ==
    Len(urls) # Len(addrs) \/ Len(urls) # Len(keys)
LengthsDiffer(urls, addrs, keys, names) ==
    \/ Len(urls) # Len(addrs)
    \/ Len(urls) # Len(keys)
    \/ Len(urls) # Len(names)

\* ChainState::new when AppState::new succeeds.
ChainState_new(rpc_url, contract_address, private_key) ==
    [rpc_url |-> rpc_url, contract_address |-> contract_address,
     private_key |-> private_key,
     app_state |-> [contract |-> <<rpc_url, contract_address, private_key>>]]

\* HashMap::insert: a new key is added, an existing key gets the new value.
insert(map, key, value) ==
    [k \in DOMAIN map \cup {key} |-> IF k = key THEN value ELSE map[k]]

\* The four lists of a configuration.
rpc_urls(b) == split(b.RPC_URLS)
contract_addresses(b) == split(b.CONTRACT_ADDRESSES)
private_keys(b) == split(b.PRIVATE_KEYS)
chain_names(b) == split(b.CHAIN_NAMES)

\* The session that iteration i of the build loop makes.
SessionAt(b, i) ==
    ChainState_new(rpc_urls(b)[i], contract_addresses(b)[i],
                   private_keys(b)[i])

\* The map after the first n iterations of the build loop.
RECURSIVE Inserted(_, _)
Inserted(b, n) ==
    IF n = 0 THEN <<>>
    ELSE insert(Inserted(b, n - 1), chain_names(b)[n], SessionAt(b, n))

\* Values of CHAIN_NAMES: every sequence of at most MaxEnvLen pieces.
NamePieces == {"eth", "base", ","}
NameValues ==
    UNION {[1..n -> NamePieces] : n \in 0..MaxEnvLen}
\* Values of the other three variables: zero to three items.
ItemValues(a, b, c) ==
    {<<>>, <<a>>, <<a, ",", b>>, <<a, ",", b, ",", c>>}

\* rocket() about to start with some configuration in the environment.
\*   phase  "start", "build" (in the loop), "built" (the loop is done),
\*          "managed" (rocket() has returned the built instance), "launched"
\*          (on_ignite has run), or "panicked"
\*   i      index (from 1) of the next loop iteration
\*   built  calls of ChainState::new made so far
Booting ==
    [phase : {"start"}, i : {1}, built : {0},
     RPC_URLS : ItemValues("u1", "u2", "u3"),
     CONTRACT_ADDRESSES : ItemValues("a1", "a2", "a3"),
     PRIVATE_KEYS : ItemValues("k1", "k2", "k3"),
     CHAIN_NAMES : NameValues]

\* rocket(): split the four values and compare the lengths.
rocket_config ==
    /\ boot.phase = "start"
    /\ boot' = [boot EXCEPT !.phase =
                  IF LengthsDiffer(rpc_urls(boot), contract_addresses(boot),
                                   private_keys(boot), chain_names(boot))
                  THEN "panicked" ELSE "build"]
    /\ UNCHANGED <<chain_states, lock, is_running, bg, req, calc>>

\* rocket(): one iteration of the build loop; ChainState::new succeeds and
\* the session is inserted under chain_names[i], or it fails and the
\* `expect` panics.
rocket_build(ok) ==
    /\ boot.phase = "build"
    /\ boot.i <= Len(rpc_urls(boot))
    /\ IF ok
       THEN /\ chain_states' = insert(chain_states, chain_names(boot)[boot.i],
                                      SessionAt(boot, boot.i))
            /\ boot' = [boot EXCEPT !.built = @ + 1, !.i = @ + 1,
                          !.phase = IF boot.i = Len(rpc_urls(boot))
                                    THEN "built" ELSE "build"]
       ELSE /\ boot' = [boot EXCEPT !.built = @ + 1, !.phase = "panicked"]
            /\ UNCHANGED chain_states
    /\ UNCHANGED <<lock, is_running, bg, req, calc>>

\* rocket(): wrap the map in Arc<Mutex<..>>, create the BackgroundSubmitter
\* and return the instance with the registry as managed state.
rocket_manage ==
    /\ boot.phase = "built"
    /\ boot' = [boot EXCEPT !.phase = "managed"]
    /\ is_running' = TRUE
    /\ UNCHANGED <<chain_states, lock, bg, req, calc>>

\* BackgroundFairing::on_ignite: lock the registry, spawn one task per
\* entry, drop the guard.
on_ignite ==
    /\ boot.phase = "managed"
    /\ lock = Unlocked
    /\ bg' = [c \in DOMAIN chain_states |-> SpawnedTask]
    /\ lock' = Unlocked
    /\ boot' = [boot EXCEPT !.phase = "launched"]
    /\ UNCHANGED <<chain_states, is_running, req, calc>>

\* The configuration of the launched instance that serves the requests.
Launched ==
    [phase |-> "launched", i |-> 3, built |-> 2,
     RPC_URLS |-> <<"u1", ",", "u2">>,
     CONTRACT_ADDRESSES |-> <<"a1", ",", "a2">>,
     PRIVATE_KEYS |-> <<"k1", ",", "k2">>,
     CHAIN_NAMES |-> <<"eth", ",", "base">>]

\* No pure computation has been applied yet.
NoCalc == [fn |-> "none"]

\* ------------------------------------------------------ pure computations
\* Number of values of a u8.
U8 == 256
\* Bytes of a topic (H256) and values of a card ([u32; 25]).
TopicBytes == 32
CardSize == 25

\* `numbers.len() == 25`.
CardLengthAtLeast(n) == n >= CardSize
CardLengthOk(n) == n = CardSize

\* A topic: TopicBytes bytes, here seed+1, seed+2, ...
H256(seed) == [k \in 1..TopicBytes |-> (seed + k) % U8]
Topics == {H256(seed) : seed \in {0, 200}}
Logs == [topics : UNION {[1..n -> Topics] : n \in 0..MaxTopics}]
Receipts == [logs : UNION {[1..n -> Logs] : n \in 0..MaxLogs}]

\* extract_card_numbers_from_receipt: the bytes of the second topic of the
\* first log, one value per byte (`b[0] as u32` widens and keeps the value),
\* accepted iff there are CardSize of them.
extract_card_numbers_from_receipt(receipt) ==
    IF Len(receipt.logs) > 0
    THEN LET log == receipt.logs[1] IN
         IF Len(log.topics) > 1
         THEN LET bytes == log.topics[2]
                  numbers == [k \in 1..Len(bytes) |-> bytes[k]]
              IN  IF CardLengthOk(Len(numbers))
                  THEN [ok |-> TRUE, card |-> numbers]
                  ELSE [ok |-> FALSE, card |-> <<>>]
         ELSE [ok |-> FALSE, card |-> <<>>]
    ELSE [ok |-> FALSE, card |-> <<>>]

\* `(random_number % 99) + 1` on u8 in submit_number.
number_of(random_number) == (((random_number % 99) % U8) + 1) % U8

\* U256::as_u32 keeps every value up to u32::MAX (it panics above, which is
\* beyond the values enumerated here); the `as i8` cast keeps the low 8
\* bits, read as two's complement.
as_u32(v) == v
as_i8(v) == LET low == v % U8 IN IF low >= 128 THEN low - U8 ELSE low

\* The drawn-number fields of the GameState that get_game_state builds from
\* the tuple returned by getCurrentGameState.
GameState_of(number_count, drawn_numbers) ==
    [drawn_numbers_count |-> as_i8(as_u32(number_count)),
     drawn_numbers |-> [k \in 1..Len(drawn_numbers) |->
                           as_i8(as_u32(drawn_numbers[k]))]]

\* Values of numberCount and of the entries of drawnNumbers.
Counts == 0..(U8 - 1)
DrawnSamples == {1, 99, 128, 255}
DrawnLists == UNION {[1..n -> DrawnSamples] : n \in 0..MaxDrawn}

\* extract_card_numbers_from_receipt is applied to a receipt.
Extract(receipt) ==
    /\ calc = NoCalc
    /\ calc' = [fn |-> "extract", receipt |-> receipt,
                out |-> extract_card_numbers_from_receipt(receipt)]
    /\ UNCHANGED <<chain_states, lock, is_running, bg, req, boot>>

\* submit_number computes the number to submit from a random byte.
Draw(random_number) ==
    /\ calc = NoCalc
    /\ calc' = [fn |-> "draw", random_number |-> random_number,
                number |-> number_of(random_number)]
    /\ UNCHANGED <<chain_states, lock, is_running, bg, req, boot>>

\* get_game_state converts the returned tuple.
Convert(number_count, drawn_numbers) ==
    /\ calc = NoCalc
    /\ calc' = [fn |-> "game_state", number_count |-> number_count,
                drawn_numbers |-> drawn_numbers,
                out |-> GameState_of(number_count, drawn_numbers)]
    /\ UNCHANGED <<chain_states, lock, is_running, bg, req, boot>>

\* ------------------------------------------------------- specifications
\* The state after launch: rocket() has filled the registry with one session
\* per configured chain, on_ignite has spawned one task per entry and has
\* dropped its guard, the flag is true, no request is in flight.
Init ==
    /\ boot = Launched
    /\ chain_states = Inserted(Launched, 2)
    /\ lock = Unlocked
    /\ is_running = TRUE
    /\ bg = [c \in ChainNames |-> SpawnedTask]
    /\ req = [r \in Reqs |-> IdleReq]
    /\ calc = NoCalc

WalletsOf(h) == IF h = "get_game_state" THEN {"none"} ELSE WalletAddresses

HandlerNext ==
    \/ \E r \in Reqs, h \in Handlers, name \in RequestedNames :
         \E w \in WalletsOf(h) : request(r, h, name, w)
    \/ \E r \in Reqs : get_game_state_lock(r)
    \/ \E r \in Reqs, res \in GameStateReads : get_game_state_read(r, res)
    \/ \E r \in Reqs : purchase_card_lock(r)
    \/ \E r \in Reqs, res \in GameStateReads : purchase_card_read(r, res)
    \/ \E r \in Reqs, ok \in BOOLEAN : purchase_card_send(r, ok)
    \/ \E r \in Reqs, res \in {"receipt", "none", "err"} :
         purchase_card_confirm(r, res)
    \/ \E r \in Reqs : get_card_lock(r)
    \/ \E r \in Reqs, ok \in BOOLEAN : get_card_read(r, ok)
    \/ \E r \in Reqs : challenge_lock(r)
    \/ \E r \in Reqs, ok \in BOOLEAN : challenge_send(r, ok)
    \/ \E r \in Reqs, res \in ClaimConfirmations : challenge_confirm(r, res)
    \/ \E r \in Reqs : respond(r)

BackgroundNext ==
    \/ \E c \in ChainNames : BgStep(c)
    \/ stop

Next == HandlerNext \/ BackgroundNext

Spec == Init /\ [][Next]_vars

\* The request handlers alone (the background tasks never touch the lock or
\* a request).
HandlerSpec == Init /\ [][HandlerNext]_vars

\* The background submitter alone.
BackgroundSpec == Init /\ [][BackgroundNext]_vars

\* Startup: rocket() from the reading of the configuration to the launch.
StartupInit ==
    /\ boot \in Booting
    /\ chain_states = <<>>
    /\ lock = Unlocked
    /\ is_running = TRUE
    /\ bg = <<>>
    /\ req = [r \in Reqs |-> IdleReq]
    /\ calc = NoCalc

StartupNext ==
    \/ rocket_config
    \/ \E ok \in BOOLEAN : rocket_build(ok)
    \/ rocket_manage
    \/ on_ignite

StartupSpec == StartupInit /\ [][StartupNext]_vars

\* One request at a time next to the background submitter; only the
\* background tasks are scheduled fairly, so a handler may stay suspended on a
\* remote operation (holding the registry lock) forever.
OneRequestNext ==
    \/ \E h \in Handlers, name \in RequestedNames :
         \E w \in WalletsOf(h) : request(1, h, name, w)
    \/ get_game_state_lock(1)
    \/ \E res \in GameStateReads : get_game_state_read(1, res)
    \/ purchase_card_lock(1)
    \/ \E res \in GameStateReads : purchase_card_read(1, res)
    \/ \E ok \in BOOLEAN : purchase_card_send(1, ok)
    \/ \E res \in {"receipt", "none", "err"} : purchase_card_confirm(1, res)
    \/ get_card_lock(1)
    \/ \E ok \in BOOLEAN : get_card_read(1, ok)
    \/ challenge_lock(1)
    \/ \E ok \in BOOLEAN : challenge_send(1, ok)
    \/ \E res \in ClaimConfirmations : challenge_confirm(1, res)
    \/ respond(1)
    \/ \E c \in ChainNames : BgStep(c)
    \/ stop

FairOneRequestSpec ==
    Init /\ [][OneRequestNext]_vars
         /\ \A c \in ChainNames : WF_vars(BgStep(c))

\* One of the pure computations applied once to an input from the sets
\* above.
PureNext ==
    \/ \E receipt \in Receipts : Extract(receipt)
    \/ \E random_number \in 0..(U8 - 1) : Draw(random_number)
    \/ \E number_count \in Counts, drawn_numbers \in DrawnLists :
         Convert(number_count, drawn_numbers)

PureSpec == Init /\ [][PureNext]_vars

\* The background submitter when every outstanding remote operation and
\* sleep eventually returns and the runtime keeps polling ready tasks.
FairBackgroundSpec ==
    BackgroundSpec /\ \A c \in ChainNames : WF_vars(BgStep(c))

\* ------------------------------------------------------------ properties
\* The places where a handler is suspended on a remote Ledger Client
\* operation (read-only call, transaction send, confirmation wait).
RemotePcs ==
    {"get_current_game_state", "assign_card_send", "assign_card_confirm",
     "get_player_cards", "claim_win_send", "claim_win_confirm"}

\* The step in which request r is granted the registry lock.
LockStep(r) ==
    \/ get_game_state_lock(r)
    \/ purchase_card_lock(r)
    \/ get_card_lock(r)
    \/ challenge_lock(r)

\* C1: no handler holds the registry lock while one of its remote
\* operations is outstanding.
C1_NoLockAcrossRemoteCall ==
    \A r \in Reqs : req[r].pc \in RemotePcs => lock # r

\* C2: while one handler is suspended on a remote operation, a second
\* request that is waiting for the registry can still acquire it and go on.
C2_SuspendedHandlerDoesNotBlock ==
    \A r1, r2 \in Reqs :
        (r1 # r2 /\ req[r1].pc \in RemotePcs /\ req[r2].pc = "lock")
            => ENABLED LockStep(r2)

\* C3 (as stated): a submitDrawnNumber transaction is sent only while the
\* stop flag is not set.
C3_NoSendAfterStop ==
    [][\A c \in ChainNames : bg'[c].sent > bg[c].sent => is_running]_vars

\* C3 (amended): once the stop flag is set no background task starts a new
\* cycle, and a submitDrawnNumber transaction sent after that comes from a
\* cycle whose isGameStarted read was already outstanding.
C3_NoNewCycleAfterStop ==
    [][\A c \in ChainNames :
          ~is_running =>
              /\ ~(bg[c].pc = "loop" /\ bg'[c].pc = "is_game_started")
              /\ (bg'[c].sent > bg[c].sent => bg[c].pc = "is_game_started")
      ]_vars

\* One task has left its loop after the stop while another one is still
\* busy with the transaction of its last cycle.
C3_Witness ==
    /\ ~is_running
    /\ \E c, d \in ChainNames :
          bg[c].pc = "stopped" /\ bg[d].pc \in {"send", "confirm"}

\* C4: in every cycle a submitDrawnNumber transaction is sent only if the
\* isGameStarted read of that cycle returned true; after a false or failed
\* read the cycle sends nothing.
C4_SendOnlyWhenStarted ==
    \A c \in ChainNames :
        /\ (bg[c].sent > 0 \/ bg[c].pc \in {"send", "confirm"})
               => bg[c].started = "true"
        /\ bg[c].started \in {"false", "err"}
               => (bg[c].sent = 0 /\ bg[c].pc \in {"sleep", "loop", "stopped"})

\* One task has sent after a true read, another ended its cycle after a
\* false read.
C4_Witness ==
    \E c, d \in ChainNames :
        /\ bg[c].started = "true" /\ bg[c].sent = 1
        /\ bg[d].started = "false" /\ bg[d].pc = "sleep"

\* C5: purchase_card, get_card and challenge on a known chain with an
\* unparsable walletAddress return 400 and attempt no remote operation.
C5_MalformedWalletNoRemoteCall ==
    \A r \in Reqs :
        (/\ req[r].handler \in {"purchase_card", "get_card", "challenge"}
         /\ req[r].chain_name \in DOMAIN chain_states
         /\ parse_Address(req[r].walletAddress) = "Err")
        => /\ req[r].ops = 0
           /\ req[r].pc = "done" => req[r].status = 400

\* C6: a request for a chain name that is not a key of the registry is
\* answered 404, attempts no remote operation, and the registry stays as
\* built at startup.
C6_UnknownChainNotFound ==
    /\ chain_states = Inserted(Launched, 2)
    /\ \A r \in Reqs :
          (req[r].pc # "idle" /\ req[r].chain_name \notin DOMAIN chain_states)
          => /\ req[r].pc \in {"lock", "done"}
             /\ req[r].ops = 0 /\ req[r].sent = 0
             /\ req[r].pc = "done" => req[r].status = 404

\* Two requests for an unknown chain have been answered.
C6_Witness ==
    \E r1, r2 \in Reqs :
        /\ r1 # r2
        /\ req[r1].pc = "done" /\ req[r1].chain_name = "nochain"
        /\ req[r1].handler = "get_game_state" /\ req[r1].status = 404
        /\ req[r2].pc = "done" /\ req[r2].chain_name = "nochain"
        /\ req[r2].handler = "challenge" /\ req[r2].status = 404

\* C7: a purchase_card whose game-state read returned is_started = true is
\* answered success=false, "Game has already started", and sends no
\* assignCard; that message is never returned after any other read result.
C7_StartedGameRefused ==
    \A r \in Reqs :
        req[r].handler = "purchase_card" =>
            /\ req[r].is_started = "true" =>
                  /\ req[r].pc = "done" /\ req[r].status = 200
                  /\ ~req[r].success
                  /\ req[r].message = "Game has already started"
                  /\ req[r].sent = 0
            /\ req[r].message = "Game has already started"
                  => req[r].is_started = "true"

\* One purchase was refused because the game had started, another one sent
\* its assignCard after reading is_started = false.
C7_Witness ==
    \E r1, r2 \in Reqs :
        /\ req[r1].handler = "purchase_card" /\ req[r1].pc = "done"
        /\ req[r1].is_started = "true"
        /\ req[r1].message = "Game has already started"
        /\ req[r2].handler = "purchase_card" /\ req[r2].is_started = "false"
        /\ req[r2].sent = 1

\* C8: requests on the same chain are not mutually exclusive: a
\* purchase_card waiting for the registry is not held back by another
\* purchase_card on the same chain that is still before its assignCard send.
C8_NoMutualExclusionPerChain ==
    \A r1, r2 \in Reqs :
        (/\ r1 # r2
         /\ req[r1].handler = "purchase_card"
         /\ req[r1].pc = "get_current_game_state"
         /\ req[r2].handler = "purchase_card" /\ req[r2].pc = "lock"
         /\ req[r2].chain_name = req[r1].chain_name)
        => ENABLED purchase_card_lock(r2)

\* C9: a failed cycle ends in the sleep and touches no other chain's task;
\* while the stop flag is unset the failing task goes on to another cycle,
\* and the other tasks keep cycling.
C9_FailedCycleKeepsCycling ==
    /\ [][\A c \in ChainNames :
             (bg[c].result # "Err" /\ bg'[c].result = "Err")
                 => /\ bg'[c].pc = "sleep"
                    /\ \A d \in ChainNames \ {c} : bg'[d] = bg[d]]_vars
    /\ \A c \in ChainNames :
          (bg[c].result = "Err")
              ~> (bg[c].pc = "is_game_started" \/ ~is_running)
    /\ \A c, d \in ChainNames :
          (c # d /\ bg[c].result = "Err" /\ bg[d].pc = "sleep")
              ~> (bg[d].pc = "loop")

\* One task is sleeping after a failed cycle while the flag is still set
\* and the other task is in the middle of a cycle.
C9_Witness ==
    /\ is_running
    /\ \E c, d \in ChainNames :
          /\ bg[c].result = "Err" /\ bg[c].pc = "sleep"
          /\ bg[d].pc = "confirm"

\* C10: once the stop flag is set every background task eventually leaves
\* its loop, and no task leaves its loop while the flag is unset.
C10_StopTerminatesAll ==
    /\ (~is_running) ~> (\A c \in ChainNames : bg[c].pc = "stopped")
    /\ [][\A c \in ChainNames :
             (bg[c].pc # "stopped" /\ bg'[c].pc = "stopped")
                 => ~is_running]_vars

\* Every task has left its loop after the stop.
C10_Witness ==
    /\ ~is_running
    /\ \A c \in ChainNames : bg[c].pc = "stopped" /\ bg[c].result # "none"

\* The four lists of the configuration do not all have the same length.
Mismatched ==
    Cardinality({Len(rpc_urls(boot)), Len(contract_addresses(boot)),
                 Len(private_keys(boot)), Len(chain_names(boot))}) > 1

\* C11: with four lists that do not all have the same length, startup fails
\* before any session construction is attempted: nothing is built, the
\* registry is never published and no background task is spawned.
C11_MismatchFailsBeforeBuild ==
    Mismatched =>
        /\ boot.phase \in {"start", "panicked"}
        /\ boot.built = 0
        /\ chain_states = <<>>
        /\ DOMAIN bg = {}

\* Startup has panicked on a configuration in which only CHAIN_NAMES has a
\* different length from the other three lists.
C11_Witness ==
    /\ boot.phase = "panicked" /\ boot.built = 0
    /\ Len(rpc_urls(boot)) = Len(contract_addresses(boot))
    /\ Len(rpc_urls(boot)) = Len(private_keys(boot))
    /\ Len(rpc_urls(boot)) > Len(chain_names(boot))

\* C12: after a build in which every session construction succeeded, the
\* registry has as many entries as the lists have items, and chain_names[i]
\* is mapped to the session built from item i of the other three lists.
C12_OneSessionPerListedName ==
    boot.phase \in {"built", "managed", "launched"} =>
        /\ Cardinality(DOMAIN chain_states) = Len(chain_names(boot))
        /\ \A i \in 1..Len(chain_names(boot)) :
              /\ chain_names(boot)[i] \in DOMAIN chain_states
              /\ chain_states[chain_names(boot)[i]] = SessionAt(boot, i)

\* C13: a remote operation that produces no usable result still ends the
\* request with HTTP 200 and success=false; the only other statuses are 404
\* (unknown chain) and 400 (unparsable wallet address).
C13_RemoteFailureInEnvelope ==
    \A r \in Reqs :
        req[r].pc = "done" =>
            /\ req[r].status \in {200, 400, 404}
            /\ req[r].status = 404 => req[r].chain_name \notin DOMAIN chain_states
            /\ req[r].status = 400 => parse_Address(req[r].walletAddress) = "Err"
            /\ req[r].remote \in {"err", "no_receipt"}
                   => (req[r].status = 200 /\ ~req[r].success)

\* C19: challenge answers success=true, data=true only when claimWin granted
\* the win; otherwise success=false, data=false; data always equals success.
C19_WinOnlyWhenClaimSucceeded ==
    \A r \in Reqs :
        (req[r].handler = "challenge" /\ req[r].pc = "done"
            /\ req[r].status = 200)
        => /\ req[r].success <=> req[r].data = "true"
           /\ ~req[r].success <=> req[r].data = "false"
           /\ req[r].success => req[r].remote = "ok"
           /\ req[r].remote \in {"not_won", "no_receipt", "err"}
                  => ~req[r].success

\* C14: extraction succeeds, with the values in order, iff the receipt has
\* a first log with a second topic that decodes to exactly CardSize values;
\* it fails without a log, with fewer than two topics, or with another count.
C14_ExtractionNeedsExactly25 ==
    calc.fn = "extract" =>
        LET logs == calc.receipt.logs
            twoTopics == Len(logs) >= 1 /\ Len(logs[1].topics) >= 2
        IN  /\ Len(logs) = 0 => ~calc.out.ok
            /\ (Len(logs) >= 1 /\ Len(logs[1].topics) < 2) => ~calc.out.ok
            /\ (twoTopics /\ Len(logs[1].topics[2]) # CardSize)
                   => ~calc.out.ok
            /\ (twoTopics /\ Len(logs[1].topics[2]) = CardSize)
                   => calc.out.ok
            /\ calc.out.ok =>
                   /\ twoTopics
                   /\ Len(calc.out.card) = CardSize
                   /\ \A k \in 1..CardSize :
                         calc.out.card[k] = logs[1].topics[2][k]

\* Extraction was applied to a receipt whose first log has a second topic;
\* the topic decodes to TopicBytes values and the extraction failed.
C14_Witness ==
    /\ calc.fn = "extract"
    /\ Len(calc.receipt.logs) >= 1
    /\ Len(calc.receipt.logs[1].topics) >= 2
    /\ Len(calc.receipt.logs[1].topics[2]) = TopicBytes
    /\ ~calc.out.ok

\* The random bytes that give the number v.
BytesGiving(v) == {b \in 0..(U8 - 1) : number_of(b) = v}

\* C16: the submitted number is in 1..=99, is computed without 8-bit
\* overflow, and every value is given by as many bytes as any other.
C16_UniformIn1To99 ==
    calc.fn = "draw" =>
        /\ calc.number \in 1..99
        /\ calc.number = (calc.random_number % 99) + 1
        /\ Cardinality(BytesGiving(calc.number)) = Cardinality(BytesGiving(1))

\* C20: drawn_numbers_count and every drawn_numbers entry of the response
\* equal the values the contract returned.
C20_FaithfulSnapshot ==
    calc.fn = "game_state" =>
        /\ calc.out.drawn_numbers_count = calc.number_count
        /\ Len(calc.out.drawn_numbers) = Len(calc.drawn_numbers)
        /\ \A k \in 1..Len(calc.drawn_numbers) :
              calc.out.drawn_numbers[k] = calc.drawn_numbers[k]

\* C15: a cycle that follows another one starts after exactly one completed
\* sleep, whatever the previous cycle's outcome; every ended cycle goes to
\* the sleep, never straight to another read.
C15_OneSleepBetweenCycles ==
    [][\A c \in ChainNames :
          /\ (bg[c].pc # "is_game_started" /\ bg'[c].pc = "is_game_started")
                 => \/ (bg[c].result = "none" /\ bg[c].sleeps = 0)
                    \/ (bg[c].result # "none" /\ bg[c].sleeps = 1)
          /\ (bg[c].result = "none" /\ bg'[c].result # "none")
                 => (bg'[c].pc = "sleep" /\ bg'[c].sleeps = 0)
          /\ bg'[c].sleeps <= 1
      ]_vars

\* One task is back at the loop test after the sleep that followed a failed
\* cycle, the other after the sleep that followed a cycle that sent nothing.
C15_Witness ==
    \E c, d \in ChainNames :
        /\ bg[c].pc = "loop" /\ bg[c].result = "Err" /\ bg[c].sleeps = 1
        /\ bg[d].pc = "loop" /\ bg[d].started = "false" /\ bg[d].sleeps = 1

\* C17: a background task never touches the registry lock, and whoever
\* holds the lock, and for however long, every task that has not left its
\* loop can take its next step and keeps completing its sleeps.
C17_TasksIndependentOfLock ==
    /\ [][bg' # bg => lock' = lock]_vars
    /\ [](\A c \in ChainNames : bg[c].pc # "stopped" => ENABLED BgStep(c))
    /\ \A c \in ChainNames :
          (lock # Unlocked /\ bg[c].pc = "sleep") ~> (bg[c].pc = "loop")

\* A handler holds the registry lock across a remote operation while one
\* task awaits a confirmation and the other is about to start a cycle.
C17_Witness ==
    /\ lock # Unlocked /\ req[lock].pc \in RemotePcs
    /\ \E c, d \in ChainNames :
          /\ bg[c].pc = "confirm"
          /\ bg[d].pc = "loop" /\ bg[d].sleeps = 1

\* C18: there is one background task per registry entry, it sends at most
\* one submitDrawnNumber per cycle, and has at most one in flight.
C18_OneTaskOneSubmission ==
    /\ DOMAIN bg = DOMAIN chain_states
    /\ \A c \in DOMAIN bg :
          /\ bg[c].sent <= 1
          /\ bg[c].pc \in {"send", "confirm"} => bg[c].sent = 1

\* Both tasks have a submitDrawnNumber in flight, one each.
C18_Witness ==
    \A c \in ChainNames : bg[c].pc \in {"send", "confirm"} /\ bg[c].sent = 1

====
